---- MODULE Spec2Model ----
(***************************************************************************)
(* FlowRunner of auto_k8s_pilot: run_flow walks the steps of a flow-*.yaml *)
(* file, invokes the registered task of every step with the caller inputs  *)
(* overlaid with the outputs of the earlier steps, records one result per  *)
(* step and derives a final answer and metadata from the results.          *)
(*                                                                         *)
(* Two invocations of run_flow (Runs) share one FlowRunner: the layers     *)
(* directory and the tasks map.  Texts are TLA+ strings; Python dicts are  *)
(* functions over a set of string keys.                                    *)
(***************************************************************************)
EXTENDS Naturals, Sequences, FiniteSets, TLC

VARIABLES
    layers,          \* the files of config_dir/layers: file name -> content
    pc,              \* per run: "idle", "loop", "running", "done", "raised"
    flow_name,       \* per run: the flow_name argument
    inputs,          \* per run: the inputs argument
    steps_config,    \* per run: flow.get("steps", [])
    task_agent_map,  \* per run: task id -> agent id, from behavior.yaml
    results,         \* per run: the local list results
    context,         \* per run: the local dict context
    idx,             \* per run: position of the for loop in steps_config
    cur,             \* per run: the task and agent of the step being executed
    calls,           \* per run: history of task.run calls (task, context passed)
    trace,           \* per run: history of what became of each step walked
    ret,             \* per run: the returned dict, or the exception raised
    oracle,          \* deterministic capabilities: (task, context) -> outcome
    synth_in,        \* a result list handed to the synthesizer functions
    synth_out,       \* what the synthesizer functions returned for synth_in
    response,        \* per run: what run_flow_endpoint answered
    flows_listed,    \* what list_flows returned
    load_tried,      \* flow name -> how load_flow of that name ended
    default_context, \* the dict that is the default of the ContextVar log_context
    log_context,     \* per request context: the value of log_context, if set
    log_events       \* what the requests did with the logger, in order

vars == << layers, pc, flow_name, inputs, steps_config, task_agent_map, results,
           context, idx, cur, calls, trace, ret, oracle, synth_in, synth_out,
           response, flows_listed, load_tried, default_context, log_context,
           log_events >>

\* The state of the endpoint, of the catalog listing and of the logger.
extras == << response, flows_listed, load_tried, default_context, log_context,
             log_events >>

\* What a call of run_flow never touches.
others == << layers, oracle, synth_in, synth_out, extras >>

-----------------------------------------------------------------------------
(* Bounds and small input sets *)

\* Longest flow when one call is followed, longest flow when two calls are
\* followed, and longest result list handed to the synthesizer.
MaxSteps == 3

MaxPairSteps == 2

MaxResults == 3

Runs == {1, 2}

EmptyMap == [k \in {} |-> ""]

\* Python's {**a, **b}: the keys of both, b's value where both have the key.
Merge(a, b) ==
    [k \in (DOMAIN a) \cup (DOMAIN b) |-> IF k \in DOMAIN b THEN b[k] ELSE a[k]]

\* d[k] = v on a dict.
Put(d, k, v) == [x \in (DOMAIN d) \cup {k} |-> IF x = k THEN v ELSE d[x]]

\* dict.get(k) as an optional: << >> for None, <<v>> for a value.
Get(d, k) == IF k \in DOMAIN d THEN << d[k] >> ELSE << >>

Min(a, b) == IF a <= b THEN a ELSE b

-----------------------------------------------------------------------------
(* The task registry *)

INCIDENT == "incident_create_issue_if_needed"

SUMMARY == "cluster_summary"

\* The keys of FlowRunner.tasks_map.
tasks_map ==
    { "k8s_pods_overview", "explain_pods", "cluster_summary", "k8s_top_nodes",
      "k8s_top_pods_ns_default", "k8s_events_recent", "argocd_list_apps",
      "argocd_app_status_chat_api", "argocd_sync_chat_api",
      "loki_recent_errors_chat_api", "loki_http_activity_chat_api",
      "dns_check_records", "dns_get_record_api", "dns_upsert_record_api",
      "llm_gateway_health", "mcp_k8s_env_check",
      "incident_create_issue_if_needed" }

-----------------------------------------------------------------------------
(* The layers directory *)

\* A step descriptor of a flow file: a YAML mapping (its fields), or a YAML
\* scalar, which has no .get.
DictStep(fields) == [type |-> "dict", fields |-> fields]

ScalarStep == [type |-> "str", fields |-> EmptyMap]

StepTaskIds == { SUMMARY, INCIDENT, "restart_pods" }

StepDescriptors ==
    { DictStep([run |-> t]) : t \in StepTaskIds }
      \cup { DictStep([name |-> "pause"]), ScalarStep }

RECURSIVE SeqsUpTo(_, _)
SeqsUpTo(S, n) ==
    IF n = 0 THEN { << >> }
    ELSE LET shorter == SeqsUpTo(S, n - 1)
         IN  shorter \cup { Append(s, x) : s \in { t \in shorter : Len(t) = n - 1 }, x \in S }

FlowConfigs(n) == { [steps |-> s] : s \in SeqsUpTo(StepDescriptors, n) }

\* The "tasks" list of behavior.yaml.
BehaviorConfigs ==
    { [tasks |-> << [id |-> SUMMARY, agent |-> "reporting_analyst"],
                    [id |-> "restart_pods", agent |-> "k8s_operator"] >>] }

BEHAVIOR_FILE == "behavior.yaml"

\* self.config_dir / "layers" / f"flow-{flow_name}.yaml", relative to layers.
FlowPathDefault(name) == "flow-k8s-healthcheck.yaml"

FlowPath(name) == "flow-" \o name \o ".yaml"

PathExists(path) == path \in DOMAIN layers

\* The states of the layers directory: one flow file of at most n steps, with
\* or without behavior.yaml.
LayerDirs(n) ==
    { Put(EmptyMap, "flow-k8s-healthcheck.yaml", f) : f \in FlowConfigs(n) }
      \cup { Put(Put(EmptyMap, "flow-k8s-healthcheck.yaml", f), BEHAVIOR_FILE, b) :
                f \in FlowConfigs(n), b \in BehaviorConfigs }

FlowNames == { "k8s-healthcheck", "nonexistent-flow" }

\* The inputs of a call: the keys api.py always sets, and a context key that
\* is also a task id.
InputChoices ==
    { [namespace |-> "default", app_name |-> "chat-api",
       cluster_summary |-> "caller note"] }

\* What a capability can do when run: return a result (text is str(result))
\* or raise an exception (text is str(e)).
Returned(text) == [kind |-> "return", text |-> text]

Raising(text) == [kind |-> "raise", text |-> text]

Outcomes ==
    { Returned("All pods healthy"), Returned("Created issue #123"),
      Raising("connection refused") }

\* int((time.time() - start) * 1000) of a step, by what the capability did.
Elapsed(outcome) ==
    IF outcome = Returned("All pods healthy") THEN { 1250 }
    ELSE IF outcome.kind = "return" THEN { 40 }
    ELSE { 0 }

\* Wall time of run_flow outside the steps.
Overheads == { 3 }

RECURSIVE SumDurations(_)
SumDurations(rs) ==
    IF rs = << >> THEN 0
    ELSE rs[Len(rs)].duration_ms + SumDurations(SubSeq(rs, 1, Len(rs) - 1))

-----------------------------------------------------------------------------
(* load_flow and _load_behavior *)

\* yaml.safe_load of the flow file.
load_flow(name) == layers[FlowPath(name)]

\* yaml.safe_load of behavior.yaml.
LoadBehavior == layers[BEHAVIOR_FILE]

\* {t["id"]: t["agent"] for t in behavior.get("tasks", [])}
RECURSIVE TaskAgentMap(_)
TaskAgentMap(tasks) ==
    IF tasks = << >> THEN EmptyMap
    ELSE LET n == Len(tasks)
         IN  Put(TaskAgentMap(SubSeq(tasks, 1, n - 1)), tasks[n].id, tasks[n].agent)

-----------------------------------------------------------------------------
(* The body of the for loop of run_flow *)

\* step.get("run") on a mapping.
StepRun(step) == Get(step.fields, "run")

\* Python's "not task_id": None or the empty string.
Falsy(opt) == IF opt = << >> THEN TRUE ELSE opt[1] = ""

AgentForUnbound(m, task_id) == "unknown"

\* task_agent_map.get(task_id, "unknown")
AgentFor(m, task_id) == IF task_id \in DOMAIN m THEN m[task_id] ELSE "unknown"

NotFoundResultPlain(task_id) ==
    [agent |-> "unknown", task |-> task_id,
     output |-> "ERROR: task not found", duration_ms |-> 0]

\* The result appended for a task id that tasks_map does not hold.
NotFoundResult(task_id) ==
    [agent |-> "unknown", task |-> task_id,
     output |-> "ERROR: task '" \o task_id \o "' not found", duration_ms |-> 0]

ErrorOutputBare(e) == e

\* output = f"ERROR: {e}"
ErrorOutput(e) == "ERROR: " \o e

\* The output of a step from what task.run did.
OutputOf(outcome) ==
    IF outcome.kind = "return" THEN outcome.text ELSE ErrorOutput(outcome.text)

StepResult(agent_id, task_id, output, duration_ms) ==
    [agent |-> agent_id, task |-> task_id, output |-> output,
     duration_ms |-> duration_ms]

WithNotFoundDropped(rs, task_id) == rs

\* results.append({... "ERROR: task '<id>' not found" ...})
WithNotFound(rs, task_id) == Append(rs, NotFoundResult(task_id))

LeakedContext == context[1]

\* context: Dict[str, str] = {}
NewContext == EmptyMap

ContextKeepFirst(ctx, task_id, output) ==
    IF task_id \in DOMAIN ctx THEN ctx ELSE Put(ctx, task_id, output)

\* context[task_id] = output
ContextAdd(ctx, task_id, output) == Put(ctx, task_id, output)

InputsOverContext(inp, ctx) == Merge(ctx, inp)

ContextOnFallThrough(ctx, task_id, output) == ContextAdd(ctx, task_id, output)

\* continue after the not-found result: context[task_id] = output at the end
\* of the loop body is not reached.
ContextOnContinue(ctx, task_id, output) == ctx

\* {**inputs, **context}
TaskContext(inp, ctx) == Merge(inp, ctx)

-----------------------------------------------------------------------------
(* The result synthesizer *)

SummaryLimit == 500

\* Python's "needle in text".
Contains(text, needle) ==
    \E i \in 1..(Len(text) + 1) :
        /\ i + Len(needle) - 1 <= Len(text)
        /\ SubSeq(text, i, i + Len(needle) - 1) = needle

\* text[:n]
Prefix(text, n) == SubSeq(text, 1, Min(n, Len(text)))

\* for r in reversed(results): the first incident or summary result met.
RECURSIVE ScanReversed(_, _)
ScanReversed(rs, k) ==
    IF k = 0 THEN << >>
    ELSE IF rs[k].task = INCIDENT THEN << rs[k].output >>
    ELSE IF rs[k].task = SUMMARY THEN << rs[k].output >>
    ELSE ScanReversed(rs, k - 1)

_extract_final_answer(rs) ==
    LET hit == ScanReversed(rs, Len(rs))
    IN  IF hit # << >> THEN hit[1]
        ELSE IF rs # << >> THEN rs[Len(rs)].output
        ELSE ""

MetadataStepFirstWins(metadata, r) ==
    LET m1 == IF r.task = SUMMARY /\ "cluster_summary" \notin DOMAIN metadata
              THEN Put(metadata, "cluster_summary",
                       IF r.output # "" THEN Prefix(r.output, SummaryLimit) ELSE "")
              ELSE metadata
    IN  IF r.task = INCIDENT /\ "incident_created" \notin DOMAIN metadata
        THEN Put(m1, "incident_created", Contains(r.output, "Created issue"))
        ELSE m1

\* One iteration of the loop of _extract_metadata.
MetadataStep(metadata, r) ==
    LET m1 == IF r.task = SUMMARY
              THEN Put(metadata, "cluster_summary",
                       IF r.output # "" THEN Prefix(r.output, SummaryLimit) ELSE "")
              ELSE metadata
    IN  IF r.task = INCIDENT
        THEN Put(m1, "incident_created", Contains(r.output, "Created issue"))
        ELSE m1

RECURSIVE MetadataFold(_, _)
MetadataFold(rs, k) ==
    IF k = 0 THEN EmptyMap ELSE MetadataStep(MetadataFold(rs, k - 1), rs[k])

_extract_metadata(rs) == MetadataFold(rs, Len(rs))

-----------------------------------------------------------------------------
(* run_flow, one invocation per run r *)

NoStep == [task |-> "", agent |-> ""]

NoReturn == [kind |-> "none"]

Raised(exc, msg) == [kind |-> "raise", exc |-> exc, msg |-> msg]

ReturnedDict(final_answer, steps, metadata) ==
    [kind |-> "return", final_answer |-> final_answer, steps |-> steps,
     metadata |-> metadata]

\* An entry of trace: what became of step number step.
Event(step, event, task_id, output) ==
    [step |-> step, event |-> event, task |-> task_id, output |-> output]

CurrentStepReversed(r) == steps_config[r][Len(steps_config[r]) + 1 - idx[r]]

\* for step in steps_config: the step the loop is at.
CurrentStep(r) == steps_config[r][idx[r]]

InLoop(r) == pc[r] = "loop" /\ idx[r] <= Len(steps_config[r])

\* run_flow(flow_name, inputs) when load_flow finds no flow file: it raises
\* FileNotFoundError before anything else is set up.
RunFlowNotFound(r, name, inp) ==
    /\ pc[r] = "idle"
    /\ ~PathExists(FlowPath(name))
    /\ pc' = [pc EXCEPT ![r] = "raised"]
    /\ flow_name' = [flow_name EXCEPT ![r] = name]
    /\ inputs' = [inputs EXCEPT ![r] = inp]
    /\ ret' = [ret EXCEPT ![r] = Raised("FileNotFoundError", "Flow not found: " \o name)]
    /\ UNCHANGED << steps_config, task_agent_map, results, context, idx, cur,
                    calls, trace, others >>

\* run_flow when the flow file exists and behavior.yaml does not: open() in
\* _load_behavior raises FileNotFoundError, which run_flow does not catch.
RunFlowBehaviorMissing(r, name, inp) ==
    /\ pc[r] = "idle"
    /\ PathExists(FlowPath(name))
    /\ ~PathExists(BEHAVIOR_FILE)
    /\ pc' = [pc EXCEPT ![r] = "raised"]
    /\ flow_name' = [flow_name EXCEPT ![r] = name]
    /\ inputs' = [inputs EXCEPT ![r] = inp]
    /\ steps_config' = [steps_config EXCEPT ![r] = load_flow(name).steps]
    /\ ret' = [ret EXCEPT ![r] =
                  Raised("FileNotFoundError", "No such file or directory: behavior.yaml")]
    /\ UNCHANGED << task_agent_map, results, context, idx, cur, calls, trace, others >>

\* run_flow up to the for loop: the flow and the behavior are loaded, results
\* and context start empty.
RunFlowBegin(r, name, inp) ==
    /\ pc[r] = "idle"
    /\ PathExists(FlowPath(name))
    /\ PathExists(BEHAVIOR_FILE)
    /\ pc' = [pc EXCEPT ![r] = "loop"]
    /\ flow_name' = [flow_name EXCEPT ![r] = name]
    /\ inputs' = [inputs EXCEPT ![r] = inp]
    /\ steps_config' = [steps_config EXCEPT ![r] = load_flow(name).steps]
    /\ task_agent_map' = [task_agent_map EXCEPT ![r] = TaskAgentMap(LoadBehavior.tasks)]
    /\ results' = [results EXCEPT ![r] = << >>]
    /\ context' = [context EXCEPT ![r] = NewContext]
    /\ idx' = [idx EXCEPT ![r] = 1]
    /\ UNCHANGED << cur, calls, trace, ret, others >>

\* A step that is no mapping: step.get raises AttributeError out of run_flow.
StepNotMapping(r) ==
    /\ InLoop(r)
    /\ CurrentStep(r).type # "dict"
    /\ pc' = [pc EXCEPT ![r] = "raised"]
    /\ ret' = [ret EXCEPT ![r] =
                  Raised("AttributeError", "'str' object has no attribute 'get'")]
    /\ UNCHANGED << flow_name, inputs, steps_config, task_agent_map, results,
                    context, idx, cur, calls, trace, others >>

\* A step without a task id: continue.
StepSkip(r) ==
    /\ InLoop(r)
    /\ CurrentStep(r).type = "dict"
    /\ Falsy(StepRun(CurrentStep(r)))
    /\ idx' = [idx EXCEPT ![r] = idx[r] + 1]
    /\ trace' = [trace EXCEPT ![r] = Append(@, Event(idx[r], "skipped", "", ""))]
    /\ UNCHANGED << pc, flow_name, inputs, steps_config, task_agent_map, results,
                    context, cur, calls, ret, others >>

\* A step whose task id is not in tasks_map: the error result, then continue.
StepTaskNotFound(r) ==
    /\ InLoop(r)
    /\ CurrentStep(r).type = "dict"
    /\ ~Falsy(StepRun(CurrentStep(r)))
    /\ LET task_id == StepRun(CurrentStep(r))[1]
       IN  /\ task_id \notin tasks_map
           /\ results' = [results EXCEPT ![r] = WithNotFound(@, task_id)]
           /\ context' = [context EXCEPT ![r] =
                             ContextOnContinue(@, task_id, NotFoundResult(task_id).output)]
           /\ trace' = [trace EXCEPT ![r] =
                           Append(@, Event(idx[r], "not_found", task_id, ""))]
    /\ idx' = [idx EXCEPT ![r] = idx[r] + 1]
    /\ UNCHANGED << pc, flow_name, inputs, steps_config, task_agent_map, cur,
                    calls, ret, others >>

\* A step whose task is registered, when task_method() itself raises e: the
\* except clause makes the output, no task.run call happens.
StepObtainFails(r, e, duration_ms) ==
    /\ InLoop(r)
    /\ CurrentStep(r).type = "dict"
    /\ ~Falsy(StepRun(CurrentStep(r)))
    /\ LET task_id == StepRun(CurrentStep(r))[1]
           agent_id == AgentFor(task_agent_map[r], task_id)
           output == ErrorOutput(e)
       IN  /\ task_id \in tasks_map
           /\ results' = [results EXCEPT ![r] =
                             Append(@, StepResult(agent_id, task_id, output, duration_ms))]
           /\ context' = [context EXCEPT ![r] = ContextAdd(@, task_id, output)]
           /\ trace' = [trace EXCEPT ![r] =
                           Append(@, Event(idx[r], "obtain_raised", task_id, e))]
    /\ idx' = [idx EXCEPT ![r] = idx[r] + 1]
    /\ UNCHANGED << pc, flow_name, inputs, steps_config, task_agent_map, cur,
                    calls, ret, others >>

\* A step whose task is registered: task.run is called with the inputs
\* overlaid with the context.
StepInvoke(r) ==
    /\ InLoop(r)
    /\ CurrentStep(r).type = "dict"
    /\ ~Falsy(StepRun(CurrentStep(r)))
    /\ LET task_id == StepRun(CurrentStep(r))[1]
       IN  /\ task_id \in tasks_map
           /\ cur' = [cur EXCEPT ![r] =
                         [task |-> task_id, agent |-> AgentFor(task_agent_map[r], task_id)]]
           /\ calls' = [calls EXCEPT ![r] =
                           Append(@, [task |-> task_id, step |-> idx[r],
                                      context |-> TaskContext(inputs[r], context[r])])]
    /\ pc' = [pc EXCEPT ![r] = "running"]
    /\ UNCHANGED << flow_name, inputs, steps_config, task_agent_map, results,
                    context, idx, trace, ret, others >>

\* What run_flow does once task.run has returned or raised.
Complete(r, outcome, duration_ms) ==
    LET output == OutputOf(outcome)
    IN  /\ results' = [results EXCEPT ![r] =
                          Append(@, StepResult(cur[r].agent, cur[r].task, output,
                                               duration_ms))]
        /\ context' = [context EXCEPT ![r] = ContextAdd(@, cur[r].task, output)]
        /\ trace' = [trace EXCEPT ![r] =
                        Append(@, Event(idx[r],
                                        IF outcome.kind = "return" THEN "returned"
                                                                   ELSE "raised",
                                        cur[r].task, outcome.text))]
        /\ idx' = [idx EXCEPT ![r] = idx[r] + 1]
        /\ cur' = [cur EXCEPT ![r] = NoStep]
        /\ pc' = [pc EXCEPT ![r] = "loop"]
        /\ UNCHANGED << flow_name, inputs, steps_config, task_agent_map, calls,
                        ret, layers, synth_in, synth_out, extras >>

\* task.run returns or raises, whatever the capability does.
StepComplete(r, outcome, duration_ms) ==
    /\ pc[r] = "running"
    /\ Complete(r, outcome, duration_ms)
    /\ UNCHANGED oracle

\* task.run of a capability whose outcome depends on its context only: what it
\* did for a context before, it does again.
StepCompleteDet(r, outcome, duration_ms) ==
    /\ pc[r] = "running"
    /\ LET key == << cur[r].task, calls[r][Len(calls[r])].context >>
       IN  IF key \in DOMAIN oracle
           THEN outcome = oracle[key] /\ UNCHANGED oracle
           ELSE oracle' = Put(oracle, key, outcome)
    /\ Complete(r, outcome, duration_ms)

\* After the loop: final answer, metadata, total duration, return.
RunFlowReturn(r, total_duration_ms) ==
    /\ pc[r] = "loop"
    /\ idx[r] > Len(steps_config[r])
    /\ pc' = [pc EXCEPT ![r] = "done"]
    /\ ret' = [ret EXCEPT ![r] =
                  ReturnedDict(_extract_final_answer(results[r]), results[r],
                               Put(_extract_metadata(results[r]), "total_duration_ms",
                                   total_duration_ms))]
    /\ UNCHANGED << flow_name, inputs, steps_config, task_agent_map, results,
                    context, idx, cur, calls, trace, others >>

-----------------------------------------------------------------------------
(* One call of run_flow on the FlowRunner of api.py *)

InitRuns ==
    /\ pc = [r \in Runs |-> "idle"]
    /\ flow_name = [r \in Runs |-> ""]
    /\ inputs = [r \in Runs |-> EmptyMap]
    /\ steps_config = [r \in Runs |-> << >>]
    /\ task_agent_map = [r \in Runs |-> EmptyMap]
    /\ results = [r \in Runs |-> << >>]
    /\ context = [r \in Runs |-> EmptyMap]
    /\ idx = [r \in Runs |-> 0]
    /\ cur = [r \in Runs |-> NoStep]
    /\ calls = [r \in Runs |-> << >>]
    /\ trace = [r \in Runs |-> << >>]
    /\ ret = [r \in Runs |-> NoReturn]

NoSynth ==
    /\ synth_in = << >>
    /\ synth_out = NoReturn

NoResponse == response = [r \in Runs |-> [status |-> 0]]

NoListing ==
    /\ flows_listed = << >>
    /\ load_tried = EmptyMap

NoLog ==
    /\ default_context = EmptyMap
    /\ log_context = [c \in Runs |-> << >>]
    /\ log_events = << >>

InitExtras == NoResponse /\ NoListing /\ NoLog

Init ==
    /\ layers \in LayerDirs(MaxSteps)
    /\ InitRuns
    /\ InitExtras
    /\ oracle = EmptyMap
    /\ NoSynth

\* The start of a call.
Call(r, name, inp) ==
    \/ RunFlowNotFound(r, name, inp)
    \/ RunFlowBehaviorMissing(r, name, inp)
    \/ RunFlowBegin(r, name, inp)

\* The for loop and the return, but for the capability's answer.
Walk(r) ==
    \/ StepNotMapping(r)
    \/ StepSkip(r)
    \/ StepTaskNotFound(r)
    \/ StepInvoke(r)
    \/ \E over \in Overheads : RunFlowReturn(r, SumDurations(results[r]) + over)

ObtainFails(r) ==
    \E d \in Elapsed(Raising("connection refused")) :
        StepObtainFails(r, "connection refused", d)

Answer(r) == \E o \in Outcomes : \E d \in Elapsed(o) : StepComplete(r, o, d)

Next ==
    \/ \E name \in FlowNames, inp \in InputChoices : Call(1, name, inp)
    \/ Walk(1)
    \/ ObtainFails(1)
    \/ Answer(1)

Spec == Init /\ [][Next]_vars

-----------------------------------------------------------------------------
(* Two calls of run_flow on the same FlowRunner, interleaved at step boundaries *)

InitPair ==
    /\ layers \in LayerDirs(MaxPairSteps)
    /\ InitRuns
    /\ InitExtras
    /\ oracle = EmptyMap
    /\ NoSynth

NextThreads ==
    \E r \in Runs :
        \/ \E name \in FlowNames, inp \in InputChoices : Call(r, name, inp)
        \/ Walk(r)
        \/ ObtainFails(r)
        \/ Answer(r)

SpecThreads == InitPair /\ [][NextThreads]_vars

-----------------------------------------------------------------------------
(* Two successive calls with the same arguments, the capabilities being
   deterministic in the context they receive *)

Jitter == { 0, 7 }

AnswerDet(r) ==
    \E o \in Outcomes : \E d \in Elapsed(o), j \in Jitter : StepCompleteDet(r, o, d + j)

NextDet ==
    \/ \E name \in FlowNames, inp \in InputChoices : Call(1, name, inp)
    \/ pc[1] \in { "done", "raised" } /\ Call(2, flow_name[1], inputs[1])
    \/ \E r \in Runs : Walk(r) \/ AnswerDet(r)

SpecDet == InitPair /\ [][NextDet]_vars

-----------------------------------------------------------------------------
(* The synthesizer functions on result lists of any shape *)

RECURSIVE Repeat(_, _)
Repeat(text, n) == IF n = 0 THEN "" ELSE text \o Repeat(text, n - 1)

LongText == Repeat("0123456789", 50) \o "Created issue #7"

SynthOutputs == { "", "All pods healthy", "Created issue #123", LongText }

SynthTasks == { SUMMARY, INCIDENT, "k8s_pods_overview" }

SynthResults == { [task |-> t, output |-> o] : t \in SynthTasks, o \in SynthOutputs }

InitSynth ==
    /\ layers = EmptyMap
    /\ InitRuns
    /\ InitExtras
    /\ oracle = EmptyMap
    /\ synth_in \in SeqsUpTo(SynthResults, MaxResults)
    /\ synth_out = NoReturn

\* _extract_final_answer(results) and _extract_metadata(results) are called.
Synthesize ==
    /\ synth_out = NoReturn
    /\ synth_out' = [kind |-> "return",
                     final_answer |-> _extract_final_answer(synth_in),
                     metadata |-> _extract_metadata(synth_in)]
    /\ UNCHANGED << layers, pc, flow_name, inputs, steps_config, task_agent_map,
                    results, context, idx, cur, calls, trace, ret, oracle, synth_in,
                    extras >>

NextSynth == Synthesize

SpecSynth == InitSynth /\ [][NextSynth]_vars

-----------------------------------------------------------------------------
(* What the histories say, for the properties below *)

Executed(e) == e.event \in { "returned", "raised", "obtain_raised" }

Failed(e) == e.event \in { "raised", "obtain_raised" }

\* The position in results[r] of the result of the k-th step walked.
ResultIndex(r, k) == Cardinality({ j \in 1..k : trace[r][j].event # "skipped" })

\* The output the k-th step walked left in results[r].
ProducedOutput(r, k) == results[r][ResultIndex(r, k)].output

NoFlowSource(name) == ("flow-" \o name \o ".yaml") \notin DOMAIN layers

HasTaskId(step) ==
    step.type = "dict" /\ "run" \in DOMAIN step.fields /\ step.fields["run"] # ""

RECURSIVE TaskIdsOf(_)
TaskIdsOf(steps) ==
    IF steps = << >> THEN << >>
    ELSE LET n == Len(steps)
             before == TaskIdsOf(SubSeq(steps, 1, n - 1))
         IN  IF HasTaskId(steps[n]) THEN Append(before, steps[n].fields["run"])
             ELSE before

TasksOf(rs) == [k \in 1..Len(rs) |-> rs[k].task]

\* The only abort inside the loop is a step that is no mapping.
AbortIsNotMapping(r) ==
    pc[r] = "raised" /\ idx[r] >= 1 =>
        /\ idx[r] <= Len(steps_config[r])
        /\ steps_config[r][idx[r]].type # "dict"

-----------------------------------------------------------------------------
(* C1 *)

\* C1: a step whose registered task fails, when obtained or when run, leaves
\* a result whose output is "ERROR: " followed by the failure detail; the loop
\* moves on to the next step, the failure aborts nothing, and a run that
\* returns has walked every step.
FailureIsolated ==
    \A r \in Runs : \A k \in 1..Len(trace[r]) :
        Failed(trace[r][k]) =>
            /\ ResultIndex(r, k) <= Len(results[r])
            /\ results[r][ResultIndex(r, k)].task = trace[r][k].task
            /\ ProducedOutput(r, k) = "ERROR: " \o trace[r][k].output
            /\ idx[r] > trace[r][k].step
            /\ AbortIsNotMapping(r)
            /\ pc[r] = "done" => Len(trace[r]) = Len(steps_config[r])

\* A run that returned after its first step raised, its second could not be
\* obtained and its third succeeded.
FailureThenSuccess ==
    /\ pc[1] = "done"
    /\ Len(trace[1]) = 3
    /\ trace[1][1].event = "raised"
    /\ trace[1][2].event = "obtain_raised"
    /\ trace[1][3].event = "returned"
    /\ Len(ret[1].steps) = 3

-----------------------------------------------------------------------------
(* C2 *)

\* C2: when run_flow returns, the tasks of its "steps" are the non-empty task
\* ids of the step descriptors, one result each, in the order of the flow.
OneResultPerTaskStep ==
    \A r \in Runs :
        pc[r] = "done" =>
            /\ ret[r].steps = results[r]
            /\ TasksOf(ret[r].steps) = TaskIdsOf(steps_config[r])

\* A returned run over a step without task id, a missing task and a task
\* that failed.
SkippedMissingFailedReturned ==
    /\ pc[1] = "done"
    /\ Len(steps_config[1]) = 3
    /\ Len(ret[1].steps) = 2
    /\ \E k \in 1..3 : trace[1][k].event = "skipped"
    /\ \E k \in 1..3 : trace[1][k].event = "not_found"
    /\ \E k \in 1..3 : Failed(trace[1][k])

-----------------------------------------------------------------------------
(* C3 *)

\* C3: a call whose flow name has no flow file ends raising FileNotFoundError
\* with no result, no task call and no returned dict.
UnknownFlowRaises ==
    \A r \in Runs :
        pc[r] # "idle" /\ NoFlowSource(flow_name[r]) =>
            /\ pc[r] = "raised"
            /\ ret[r].kind = "raise"
            /\ ret[r].exc = "FileNotFoundError"
            /\ results[r] = << >>
            /\ calls[r] = << >>
            /\ trace[r] = << >>

\* A call for a flow that has no file has ended.
UnknownFlowCalled ==
    /\ flow_name[1] = "nonexistent-flow"
    /\ pc[1] = "raised"
    /\ PathExists(BEHAVIOR_FILE)

-----------------------------------------------------------------------------
(* C4 *)

\* C4: run_flow raises to its caller only when the flow name has no flow
\* file; for a flow that exists every failure ends in the returned dict.
OnlyUnknownFlowRaises ==
    \A r \in Runs : pc[r] = "raised" => NoFlowSource(flow_name[r])

-----------------------------------------------------------------------------
(* C5 *)

\* C5: a step whose task id is not in the registry leaves the result
\* (agent "unknown", the task id, "ERROR: task '<id>' not found", 0 ms),
\* calls no task, and the loop moves on to the next step.
MissingTaskReported ==
    \A r \in Runs : \A k \in 1..Len(trace[r]) :
        trace[r][k].event = "not_found" =>
            /\ ResultIndex(r, k) <= Len(results[r])
            /\ results[r][ResultIndex(r, k)] =
                   [agent |-> "unknown", task |-> trace[r][k].task,
                    output |-> "ERROR: task '" \o trace[r][k].task \o "' not found",
                    duration_ms |-> 0]
            /\ \A c \in 1..Len(calls[r]) : calls[r][c].step # trace[r][k].step
            /\ idx[r] > trace[r][k].step
            /\ AbortIsNotMapping(r)

\* A missing task that behavior.yaml binds to an agent, followed by a step
\* that ran.
MissingBoundTaskThenRun ==
    /\ Len(trace[1]) >= 2
    /\ trace[1][1].event = "not_found"
    /\ trace[1][1].task \in DOMAIN task_agent_map[1]
    /\ trace[1][2].event = "returned"

-----------------------------------------------------------------------------
(* C6 *)

\* The steps executed before the step of call c of run r.
ExecutedBefore(r, c) ==
    { k \in 1..Len(trace[r]) :
        Executed(trace[r][k]) /\ trace[r][k].step < calls[r][c].step }

\* C6 as stated: the context of every task call holds, under the task id of
\* every step executed before it, the output that step produced.
ContextHoldsEveryOutput ==
    \A r \in Runs : \A c \in 1..Len(calls[r]) : \A k \in ExecutedBefore(r, c) :
        /\ trace[r][k].task \in DOMAIN calls[r][c].context
        /\ calls[r][c].context[trace[r][k].task] = ProducedOutput(r, k)

\* C6, amended: the context of every task call holds, under the task id of
\* every step executed before it, the output of the latest such step with
\* that task id.
ContextHoldsLatestOutput ==
    \A r \in Runs : \A c \in 1..Len(calls[r]) : \A k \in ExecutedBefore(r, c) :
        /\ trace[r][k].task \in DOMAIN calls[r][c].context
        /\ (\A j \in ExecutedBefore(r, c) :
                trace[r][j].task = trace[r][k].task => j <= k)
             => calls[r][c].context[trace[r][k].task] = ProducedOutput(r, k)

\* A task called after the same task ran twice with different outputs.
RepeatedTaskSeen ==
    \E c \in 1..Len(calls[1]) :
        \E j \in ExecutedBefore(1, c), k \in ExecutedBefore(1, c) :
            /\ j < k
            /\ trace[1][j].task = trace[1][k].task
            /\ ProducedOutput(1, j) # ProducedOutput(1, k)
            /\ trace[1][j].event = "returned"

-----------------------------------------------------------------------------
(* C7 *)

HasTask(rs, t) == \E k \in 1..Len(rs) : rs[k].task = t

\* The last result of rs whose task is t.
LastOf(rs, t) ==
    rs[CHOOSE k \in 1..Len(rs) :
           rs[k].task = t /\ \A j \in (k + 1)..Len(rs) : rs[j].task # t]

\* C7: the final answer is the output of the last incident result if there is
\* one, else of the last summary result if there is one, else of the last
\* result, else the empty string.
FinalAnswerByPriority ==
    synth_out.kind = "return" =>
        synth_out.final_answer =
            IF HasTask(synth_in, INCIDENT) THEN LastOf(synth_in, INCIDENT).output
            ELSE IF HasTask(synth_in, SUMMARY) THEN LastOf(synth_in, SUMMARY).output
            ELSE IF synth_in # << >> THEN synth_in[Len(synth_in)].output
            ELSE ""

-----------------------------------------------------------------------------
(* C8 *)

\* The first 500 characters of a text.
First500(text) == IF Len(text) <= 500 THEN text ELSE SubSeq(text, 1, 500)

\* C8: the metadata has cluster_summary exactly when a summary result exists,
\* equal to the first 500 characters of the last one's output, and has
\* incident_created exactly when an incident result exists, true exactly when
\* the last one's output contains "Created issue".
MetadataLastWins ==
    synth_out.kind = "return" =>
        LET md == synth_out.metadata
        IN  /\ DOMAIN md \subseteq { "cluster_summary", "incident_created" }
            /\ "cluster_summary" \in DOMAIN md <=> HasTask(synth_in, SUMMARY)
            /\ HasTask(synth_in, SUMMARY) =>
                   md["cluster_summary"] = First500(LastOf(synth_in, SUMMARY).output)
            /\ "incident_created" \in DOMAIN md <=> HasTask(synth_in, INCIDENT)
            /\ HasTask(synth_in, INCIDENT) =>
                   md["incident_created"] =
                       Contains(LastOf(synth_in, INCIDENT).output, "Created issue")

\* Metadata made from two summary results, the last one longer than 500
\* characters, and an incident result that filed no issue after one that did.
RepeatedTasksSynthesized ==
    /\ synth_out.kind = "return"
    /\ Len(synth_in) = 3
    /\ synth_in[1] = [task |-> SUMMARY, output |-> "All pods healthy"]
    /\ synth_in[3] = [task |-> SUMMARY, output |-> LongText]
    /\ synth_in[2].task = INCIDENT
    /\ Len(synth_out.metadata["cluster_summary"]) = 500
    /\ synth_out.metadata["incident_created"]

-----------------------------------------------------------------------------
(* C9 *)

\* A result without its duration.
Undated(rs) ==
    [k \in 1..Len(rs) |->
        [agent |-> rs[k].agent, task |-> rs[k].task, output |-> rs[k].output]]

\* C9: two successive calls with the same arguments, on capabilities that
\* depend on their context only, return steps equal in task, agent and output.
RunsAgree ==
    pc[1] = "done" /\ pc[2] = "done" =>
        Undated(ret[1].steps) = Undated(ret[2].steps)

\* Two returned calls whose second step ran on the output of the first, with
\* different durations.
TwoRunsCompared ==
    /\ pc[1] = "done"
    /\ pc[2] = "done"
    /\ Len(calls[1]) = 2
    /\ Len(calls[2]) = 2
    /\ calls[2][2].context # calls[2][1].context
    /\ ret[1].steps # ret[2].steps

-----------------------------------------------------------------------------
(* C10 *)

\* The output step k of run r must have produced, from what the step did.
OwnOutput(r, k) ==
    LET e == trace[r][k]
    IN  IF e.event = "returned" THEN e.output
        ELSE IF e.event = "not_found" THEN "ERROR: task '" \o e.task \o "' not found"
        ELSE "ERROR: " \o e.output

\* The latest step of run r executed before step number s with task id t.
LatestBefore(r, s, t) ==
    CHOOSE k \in 1..Len(trace[r]) :
        /\ Executed(trace[r][k]) /\ trace[r][k].task = t /\ trace[r][k].step < s
        /\ \A j \in 1..Len(trace[r]) :
               Executed(trace[r][j]) /\ trace[r][j].task = t /\ trace[r][j].step < s
                   => j <= k

OwnTasksBefore(r, s) ==
    { trace[r][k].task : k \in { j \in 1..Len(trace[r]) :
                                   Executed(trace[r][j]) /\ trace[r][j].step < s } }

\* C10: whatever the interleaving, the context a task of run r receives is
\* made of the inputs of r and the outputs of the earlier steps of r alone,
\* and the results of r are those of the steps of r alone.
RunsIsolated ==
    \A r \in Runs :
        /\ \A c \in 1..Len(calls[r]) :
               LET ctx == calls[r][c].context
                   s == calls[r][c].step
               IN  /\ DOMAIN ctx = (DOMAIN inputs[r]) \cup OwnTasksBefore(r, s)
                   /\ \A key \in DOMAIN ctx :
                          ctx[key] = IF key \in OwnTasksBefore(r, s)
                                     THEN OwnOutput(r, LatestBefore(r, s, key))
                                     ELSE inputs[r][key]
        /\ Len(results[r]) = ResultIndex(r, Len(trace[r]))
        /\ \A k \in 1..Len(trace[r]) :
               trace[r][k].event # "skipped" =>
                   /\ results[r][ResultIndex(r, k)].task = trace[r][k].task
                   /\ ProducedOutput(r, k) = OwnOutput(r, k)
        /\ pc[r] = "done" => ret[r].steps = results[r]

\* Both calls are inside task.run of their second step, each after a first
\* step of its own with a different output.
InterleavedRuns ==
    /\ pc[1] = "running"
    /\ pc[2] = "running"
    /\ Len(calls[1]) = 2
    /\ Len(calls[2]) = 2
    /\ results[1][1].output # results[2][1].output
    /\ calls[1][2].context # calls[2][2].context

-----------------------------------------------------------------------------
(* POST /run/{flow_name}: run_flow_endpoint of api.py around one run_flow call *)

\* A RunRequest body: namespace, app_name (optional) and context (optional).
RunRequest(namespace, app_name, ctx) ==
    [namespace |-> namespace, app_name |-> app_name, context |-> ctx]

Requests ==
    { RunRequest("default", << >>, << [cluster_summary |-> "caller note"] >>),
      RunRequest("default", << "" >>, << [cluster_summary |-> "caller note"] >>),
      RunRequest("prod", << "web" >>, << >>),
      RunRequest("prod", << "web" >>, << [restart_pods |-> "asked"] >>) }

\* The inputs the endpoint hands to run_flow: namespace, app_name or
\* "chat-api", overlaid with the request's context if there is one.
EndpointInputs(request) ==
    Merge([namespace |-> request.namespace,
           app_name |-> IF Falsy(request.app_name) THEN "chat-api"
                        ELSE request.app_name[1]],
          IF request.context = << >> THEN EmptyMap ELSE request.context[1])

NoNotFoundResponse(name, outcome) ==
    IF outcome.kind = "return"
    THEN [status |-> 200, final_answer |-> outcome.final_answer,
          steps |-> outcome.steps, metadata |-> outcome.metadata]
    ELSE [status |-> 500, detail |-> outcome.msg]

\* What the endpoint answers for how run_flow ended: the RunResponse, 404 for
\* a FileNotFoundError, 500 with str(e) for any other exception.
HttpResponse(name, outcome) ==
    IF outcome.kind = "return"
    THEN [status |-> 200, final_answer |-> outcome.final_answer,
          steps |-> outcome.steps, metadata |-> outcome.metadata]
    ELSE IF outcome.exc = "FileNotFoundError"
         THEN [status |-> 404, detail |-> "Flow not found: " \o name]
         ELSE [status |-> 500, detail |-> outcome.msg]

\* The endpoint after run_flow has returned or raised.
Respond(r) ==
    /\ pc[r] \in { "done", "raised" }
    /\ response[r].status = 0
    /\ response' = [response EXCEPT ![r] = HttpResponse(flow_name[r], ret[r])]
    /\ UNCHANGED << layers, pc, flow_name, inputs, steps_config, task_agent_map,
                    results, context, idx, cur, calls, trace, ret, oracle,
                    synth_in, synth_out, flows_listed, load_tried,
                    default_context, log_context, log_events >>

NextApi ==
    \/ \E name \in FlowNames, request \in Requests :
           Call(1, name, EndpointInputs(request))
    \/ Walk(1)
    \/ ObtainFails(1)
    \/ Answer(1)
    \/ Respond(1)

SpecApi == Init /\ [][NextApi]_vars

\* C11: the endpoint answers 404 "Flow not found" when the flow name is
\* unknown, 500 when run_flow raised anything but the not-found condition, and
\* never 200 for an unknown flow.
UnknownFlowIs404 ==
    \A r \in Runs :
        response[r].status # 0 =>
            /\ NoFlowSource(flow_name[r]) =>
                   /\ response[r].status = 404
                   /\ response[r].detail = "Flow not found: " \o flow_name[r]
            /\ (ret[r].kind = "raise" /\ ret[r].exc # "FileNotFoundError") =>
                   /\ response[r].status = 500
                   /\ response[r].detail = ret[r].msg
            /\ response[r].status = 200 => ~NoFlowSource(flow_name[r])

UnknownFlowAnswered ==
    /\ flow_name[1] = "nonexistent-flow"
    /\ NoFlowSource(flow_name[1])
    /\ response[1].status = 404

\* C17: the endpoint answers 404 only if the requested flow does not exist.
NotFoundOnlyForUnknownFlow ==
    \A r \in Runs : response[r].status = 404 => NoFlowSource(flow_name[r])

-----------------------------------------------------------------------------
(* C12 *)

\* C12: within a run the tasks are invoked in the declared order of the steps,
\* each call being for the task id of its own step, and when the task of a
\* step is invoked every earlier step has been walked once, every earlier
\* step with a task id has its result in results, and every earlier executed
\* step has its output in the context (the previous step's own output, if it
\* was executed).
InvokedInDeclaredOrder ==
    \A r \in Runs :
        /\ \A c \in 1..Len(calls[r]) :
               LET n == calls[r][c].step
               IN  /\ n \in 1..Len(steps_config[r])
                   /\ HasTaskId(steps_config[r][n])
                   /\ calls[r][c].task = steps_config[r][n].fields["run"]
                   /\ c > 1 => calls[r][c - 1].step < n
        /\ \A k \in 1..Len(trace[r]) : trace[r][k].step = k
        /\ pc[r] = "running" =>
               LET n == calls[r][Len(calls[r])].step
               IN  /\ n = idx[r]
                   /\ Len(trace[r]) = n - 1
                   /\ TasksOf(results[r]) = TaskIdsOf(SubSeq(steps_config[r], 1, n - 1))
                   /\ \A k \in 1..(n - 1) :
                          Executed(trace[r][k]) =>
                              trace[r][k].task \in DOMAIN context[r]
                   /\ (n > 1 /\ Executed(trace[r][n - 1])) =>
                          context[r][trace[r][n - 1].task] = ProducedOutput(r, n - 1)

\* The third step's task is being run, after a step that failed and a step
\* that named a missing task.
ThirdStepInvoked ==
    /\ pc[1] = "running"
    /\ idx[1] = 3
    /\ trace[1][1].event = "raised"
    /\ trace[1][2].event = "not_found"
    /\ calls[1][Len(calls[1])].task # trace[1][1].task

-----------------------------------------------------------------------------
(* C13 *)

\* C13: a call of run_flow on a flow that exists never stops short of the
\* full report: as long as it has not returned final_answer, steps and
\* metadata with total_duration_ms, it has a next step to take (a capability
\* that is running returns or raises).
ExistingFlowReturnsReport ==
    (pc[1] # "idle" /\ ~NoFlowSource(flow_name[1])) =>
        \/ ENABLED (Walk(1) \/ ObtainFails(1) \/ Answer(1))
        \/ /\ pc[1] = "done"
           /\ ret[1].kind = "return"
           /\ ret[1].steps = results[1]
           /\ ret[1].final_answer = _extract_final_answer(results[1])
           /\ "total_duration_ms" \in DOMAIN ret[1].metadata

-----------------------------------------------------------------------------
(* C14 *)

\* C14: every key of the caller's inputs reaches every task; under a key that
\* is the task id of a step executed earlier in the run the task receives
\* that step's output (the latest one), under any other key the caller's
\* value, unchanged.
StepOutputsOverrideInputs ==
    \A r \in Runs : \A c \in 1..Len(calls[r]) :
        LET passed == calls[r][c].context
            s == calls[r][c].step
        IN  \A key \in DOMAIN inputs[r] :
                /\ key \in DOMAIN passed
                /\ passed[key] =
                       IF key \in OwnTasksBefore(r, s)
                       THEN ProducedOutput(r, LatestBefore(r, s, key))
                       ELSE inputs[r][key]

\* A task called with the output of an earlier cluster_summary step in place
\* of the caller's cluster_summary, and with the caller's namespace.
CallerValueOverridden ==
    \E c \in 1..Len(calls[1]) :
        /\ SUMMARY \in DOMAIN inputs[1]
        /\ inputs[1][SUMMARY] = "caller note"
        /\ calls[1][c].context[SUMMARY] = "All pods healthy"
        /\ calls[1][c].context["namespace"] = inputs[1]["namespace"]

-----------------------------------------------------------------------------
(* Two successive calls with the same arguments, behavior.yaml being
   rewritten between them *)

\* Other contents of the "tasks" list of behavior.yaml: other agents for the
\* same tasks, and no binding at all.
AltBehaviorConfigs ==
    { [tasks |-> << [id |-> SUMMARY, agent |-> "k8s_operator"],
                    [id |-> INCIDENT, agent |-> "incident_triager"] >>],
      [tasks |-> << >>] }

\* behavior.yaml is read anew by every call of run_flow: between two calls
\* the file gets another content.
RebindAgents(b) ==
    /\ pc[1] \in { "done", "raised" }
    /\ pc[2] = "idle"
    /\ PathExists(BEHAVIOR_FILE)
    /\ LoadBehavior # b
    /\ layers' = Put(layers, BEHAVIOR_FILE, b)
    /\ UNCHANGED << pc, flow_name, inputs, steps_config, task_agent_map, results,
                    context, idx, cur, calls, trace, ret, oracle, synth_in,
                    synth_out, extras >>

NextAgents ==
    \/ \E name \in FlowNames, inp \in InputChoices : Call(1, name, inp)
    \/ \E b \in AltBehaviorConfigs : RebindAgents(b)
    \/ pc[2] = "idle" /\ pc[1] \in { "done", "raised" }
          /\ Call(2, flow_name[1], inputs[1])
    \/ \E r \in Runs : Walk(r) \/ AnswerDet(r)

SpecAgents == InitPair /\ [][NextAgents]_vars

\* A result list without agents and durations.
TaskAndOutput(rs) ==
    [k \in 1..Len(rs) |-> [task |-> rs[k].task, output |-> rs[k].output]]

\* The agent the bindings read by run r give to task id t.
BoundAgent(r, t) ==
    IF \E b \in DOMAIN task_agent_map[r] : b = t THEN task_agent_map[r][t]
    ELSE "unknown"

\* C15: the agent of the result of every executed step is the agent that
\* behavior.yaml, as read by that call, binds to the step's task id, or
\* "unknown" without a binding; and two calls with the same arguments under
\* different contents of behavior.yaml call the same tasks with the same
\* contexts and return the same tasks, outputs, final answer and metadata.
AgentAnnotatesOnly ==
    /\ \A r \in Runs :
           /\ (pc[r] \in { "loop", "running" } \/ (r = 2 /\ pc[r] = "done")) =>
                  task_agent_map[r] = TaskAgentMap(LoadBehavior.tasks)
           /\ \A k \in 1..Len(trace[r]) :
                  Executed(trace[r][k]) =>
                      results[r][ResultIndex(r, k)].agent =
                          BoundAgent(r, trace[r][k].task)
    /\ (pc[1] = "done" /\ pc[2] = "done") =>
           /\ calls[1] = calls[2]
           /\ TaskAndOutput(ret[1].steps) = TaskAndOutput(ret[2].steps)
           /\ ret[1].final_answer = ret[2].final_answer
           /\ \A key \in (DOMAIN ret[1].metadata) \ { "total_duration_ms" } :
                  /\ key \in DOMAIN ret[2].metadata
                  /\ ret[1].metadata[key] = ret[2].metadata[key]

\* Two returned calls of two steps each, under different bindings: the agents
\* of the results differ, one task is bound in neither.
ReboundRunsCompared ==
    /\ pc[1] = "done"
    /\ pc[2] = "done"
    /\ Len(calls[1]) = 2
    /\ Len(calls[2]) = 2
    /\ task_agent_map[1] # task_agent_map[2]
    /\ ret[1].steps[1].agent # ret[2].steps[1].agent
    /\ \E k \in 1..2 : ret[2].steps[k].agent = "unknown"

-----------------------------------------------------------------------------
(* C16 *)

\* C16: a step whose task id is not in tasks_map leaves its "ERROR: task
\* '<id>' not found" result and no entry in the context: the context of the
\* run has no such key, and a task call has one only if the caller's inputs
\* have it, with the caller's value.
MissingTaskLeavesContext ==
    \A r \in Runs : \A k \in 1..Len(trace[r]) :
        trace[r][k].event = "not_found" =>
            LET t == trace[r][k].task
            IN  /\ ProducedOutput(r, k) = "ERROR: task '" \o t \o "' not found"
                /\ t \notin DOMAIN context[r]
                /\ \A c \in 1..Len(calls[r]) :
                       t \in DOMAIN calls[r][c].context =>
                           /\ t \in DOMAIN inputs[r]
                           /\ calls[r][c].context[t] = inputs[r][t]

\* A task called right after a step that named a missing task, with no entry
\* for the missing task in what it receives.
CalledAfterMissingTask ==
    /\ Len(trace[1]) >= 1
    /\ trace[1][1].event = "not_found"
    /\ Len(calls[1]) >= 1
    /\ calls[1][1].step = 2
    /\ trace[1][1].task \notin DOMAIN calls[1][1].context
    /\ Len(results[1]) >= 1

-----------------------------------------------------------------------------
(* The flow catalog: list_flows, and load_flow of the names it returned *)

\* Python's text.startswith(head) and text.endswith(tail).
StartsWith(text, head) ==
    Len(text) >= Len(head) /\ SubSeq(text, 1, Len(head)) = head

EndsWith(text, tail) ==
    Len(text) >= Len(tail)
        /\ SubSeq(text, Len(text) - Len(tail) + 1, Len(text)) = tail

\* Python's text.replace(old, ""): every occurrence of old, from the left.
RECURSIVE Remove(_, _)
Remove(text, old) ==
    IF Len(text) < Len(old) THEN text
    ELSE IF SubSeq(text, 1, Len(old)) = old
         THEN IF Len(text) = Len(old) THEN ""
              ELSE Remove(SubSeq(text, Len(old) + 1, Len(text)), old)
         ELSE SubSeq(text, 1, 1) \o Remove(SubSeq(text, 2, Len(text)), old)

\* Does layers_dir.glob("flow-*.yaml") yield the file of this name?
GlobMatches(file) == StartsWith(file, "flow-") /\ EndsWith(file, ".yaml")

\* f.stem of a file the glob yielded: the name without its ".yaml".
Stem(file) == SubSeq(file, 1, Len(file) - Len(".yaml"))

\* name = f.stem.replace("flow-", "")
FlowNameOf(file) == Remove(Stem(file), "flow-")

\* The file names a layers directory may hold.
CatalogFiles ==
    { "flow-k8s-healthcheck.yaml", "flow-infra-health.yaml",
      "flow-pre-flow-check.yaml", "flow-pre-check.yaml", "flow-notes.txt",
      BEHAVIOR_FILE }

FileContent(file) ==
    IF file = BEHAVIOR_FILE THEN CHOOSE b \in BehaviorConfigs : TRUE
    ELSE [steps |-> << DictStep([run |-> SUMMARY]) >>]

CatalogDirs == { [file \in files |-> FileContent(file)] : files \in SUBSET CatalogFiles }

\* The orders in which a directory scan may yield the files of S.
Orders(S) ==
    { order \in [1..Cardinality(S) -> S] :
        \A i, j \in 1..Cardinality(S) : order[i] = order[j] => i = j }

InitCatalog ==
    /\ layers \in CatalogDirs
    /\ InitRuns
    /\ InitExtras
    /\ oracle = EmptyMap
    /\ NoSynth

\* list_flows(): the names of the files the glob yields, in its order.
ListFlows(order) ==
    /\ flows_listed = << >>
    /\ flows_listed' = << [k \in 1..Len(order) |-> FlowNameOf(order[k])] >>
    /\ UNCHANGED << layers, pc, flow_name, inputs, steps_config, task_agent_map,
                    results, context, idx, cur, calls, trace, ret, oracle,
                    synth_in, synth_out, response, load_tried, default_context,
                    log_context, log_events >>

\* How load_flow(name) ends: FileNotFoundError without the file, else the
\* parsed file.
LoadOutcome(name) ==
    IF ~PathExists(FlowPath(name))
    THEN Raised("FileNotFoundError", "Flow not found: " \o name)
    ELSE [kind |-> "return", flow |-> load_flow(name)]

\* load_flow(name) for a name list_flows returned.
LoadListed(name) ==
    /\ flows_listed # << >>
    /\ \E k \in 1..Len(flows_listed[1]) : flows_listed[1][k] = name
    /\ name \notin DOMAIN load_tried
    /\ load_tried' = Put(load_tried, name, LoadOutcome(name))
    /\ UNCHANGED << layers, pc, flow_name, inputs, steps_config, task_agent_map,
                    results, context, idx, cur, calls, trace, ret, oracle,
                    synth_in, synth_out, response, flows_listed, default_context,
                    log_context, log_events >>

ListedNames == { FlowNameOf(file) : file \in CatalogFiles }

NextCatalog ==
    \/ \E order \in Orders({ file \in DOMAIN layers : GlobMatches(file) }) :
           ListFlows(order)
    \/ \E name \in ListedNames : LoadListed(name)

SpecCatalog == InitCatalog /\ [][NextCatalog]_vars

\* C18: load_flow of a name that list_flows returned does not raise
\* not-found, whatever flow-*.yaml files the layers directory holds.
ListedFlowsLoad ==
    \A name \in DOMAIN load_tried : load_tried[name].kind = "return"

-----------------------------------------------------------------------------
(* The request context of the logger: set_request_context and the log calls
   of two requests, each in a context of its own *)

MaxLogOps == 4

\* The one dict object the module creates: the default of log_context.
DEFAULT == "default"

\* log_context.get() in context c: the object set in c, else the default.
GetLogContext(c) == IF log_context[c] = << >> THEN DEFAULT ELSE log_context[c][1]

\* The content of a dict object; the module never creates another dict.
Deref(object) == default_context

\* The keyword arguments request c may give to set_request_context.
ContextKwargs(c) ==
    { [key |-> "request_id", value |-> IF c = 1 THEN "req-1" ELSE "req-2"],
      [key |-> "user", value |-> IF c = 1 THEN "alice" ELSE "bob"] }

\* The attributes of a recording span.
SpanAttributes(recording) ==
    IF recording THEN [trace_id |-> "0af7651916cd43dd8448eb211c80319c",
                       span_id |-> "b7ad6b7169203331"]
    ELSE EmptyMap

\* _add_trace_context(event_dict) in context c.
_add_trace_context(event_dict, recording, c) ==
    Merge(Merge(event_dict, SpanAttributes(recording)), Deref(GetLogContext(c)))

InitLog ==
    /\ layers = EmptyMap
    /\ InitRuns
    /\ InitExtras
    /\ oracle = EmptyMap
    /\ NoSynth

\* set_request_context(key=value) in context c: the dict got is updated in
\* place and set as the value of log_context in c.
SetRequestContext(c, kw) ==
    /\ Len(log_events) < MaxLogOps
    /\ LET current_context == GetLogContext(c)
       IN  /\ default_context' = Put(Deref(current_context), kw.key, kw.value)
           /\ log_context' = [log_context EXCEPT ![c] = << current_context >>]
    /\ log_events' = Append(log_events,
                            [op |-> "set", context |-> c, key |-> kw.key,
                             value |-> kw.value])
    /\ UNCHANGED << layers, pc, flow_name, inputs, steps_config, task_agent_map,
                    results, context, idx, cur, calls, trace, ret, oracle,
                    synth_in, synth_out, response, flows_listed, load_tried >>

\* log.info(msg) in context c: the event carries what _add_trace_context adds.
LogInfo(c, recording) ==
    /\ Len(log_events) < MaxLogOps
    /\ log_events' = Append(log_events,
                            [op |-> "log", context |-> c,
                             attrs |-> _add_trace_context(EmptyMap, recording, c)])
    /\ UNCHANGED << layers, pc, flow_name, inputs, steps_config, task_agent_map,
                    results, context, idx, cur, calls, trace, ret, oracle,
                    synth_in, synth_out, response, flows_listed, load_tried,
                    default_context, log_context >>

NextLog ==
    \E c \in Runs :
        \/ \E kw \in ContextKwargs(c) : SetRequestContext(c, kw)
        \/ \E recording \in BOOLEAN : LogInfo(c, recording)

SpecLog == InitLog /\ [][NextLog]_vars

\* C19: a log event carries, besides the span's ids, only attributes that its
\* own request set with set_request_context before, with the value set.
LogContextRequestScoped ==
    \A i \in 1..Len(log_events) :
        log_events[i].op = "log" =>
            \A key \in (DOMAIN log_events[i].attrs) \ { "trace_id", "span_id" } :
                \E j \in 1..(i - 1) :
                    /\ log_events[j].op = "set"
                    /\ log_events[j].context = log_events[i].context
                    /\ log_events[j].key = key
                    /\ log_events[j].value = log_events[i].attrs[key]

====
